---- MODULE Spec2Model ----
(***************************************************************************)
(* A model of the quotation parser of src/parser.py.                       *)
(*                                                                         *)
(* Text is modelled after whitespace normalisation (N, parser.py:15): a    *)
(* text is a sequence of lines, a line a sequence of whitespace-separated  *)
(* tokens, a token a record that keeps what the parser's regular           *)
(* expressions look at: its kind, its spelling, its digit runs (as         *)
(* sequences of digits, so leading zeros and digit counts are kept) and    *)
(* whether a colon follows it.  Each regular expression of the source is   *)
(* an operator on tokens and lines that says where it matches and what its *)
(* groups capture.                                                         *)
(***************************************************************************)
EXTENDS Integers, Sequences, FiniteSets, TLC

\* ---------------------------------------------------------------- tokens

NoDigits == <<>>

W(s) == [k |-> "word", s |-> s, a |-> NoDigits, b |-> NoDigits, c |-> NoDigits, colon |-> FALSE]

WC(s) == [k |-> "word", s |-> s, a |-> NoDigits, b |-> NoDigits, c |-> NoDigits, colon |-> TRUE]

\* a phrase the source matches with an inner \s*, such as Rated\s*Current
Phrase(s, colon) == [k |-> "phrase", s |-> s, a |-> NoDigits, b |-> NoDigits, c |-> NoDigits, colon |-> colon]

\* a leading "-" or bullet character standing alone
Bullet == [k |-> "bullet", s |-> "-", a |-> NoDigits, b |-> NoDigits, c |-> NoDigits, colon |-> FALSE]

\* digits only: "30"
Num(a) == [k |-> "int", s |-> "", a |-> a, b |-> NoDigits, c |-> NoDigits, colon |-> FALSE]

\* digits with one thousands separator: "1,000" is CNum(<<1>>, <<0,0,0>>)
CNum(a, b) == [k |-> "cint", s |-> "", a |-> a, b |-> b, c |-> NoDigits, colon |-> FALSE]

\* "$a", "$a,b", "$a.c" or "$a,b.c": "$3,000" is Money(<<3>>, <<0,0,0>>, <<>>)
Money(a, b, c) == [k |-> "money", s |-> "", a |-> a, b |-> b, c |-> c, colon |-> FALSE]

\* "a-b": "8-10" is Range(<<8>>, <<1,0>>)
Range(a, b) == [k |-> "range", s |-> "", a |-> a, b |-> b, c |-> NoDigits, colon |-> FALSE]

\* ------------------------------------------------------- sequence helpers

RECURSIVE Concat(_)
\* the concatenation of a sequence of sequences
Concat(ss) == IF ss = <<>> THEN <<>> ELSE Head(ss) \o Concat(Tail(ss))

RECURSIVE JoinWith(_, _)
\* sep.join(ss) for sequences
JoinWith(ss, sep) ==
  IF ss = <<>> THEN <<>>
  ELSE IF Len(ss) = 1 THEN Head(ss)
  ELSE Head(ss) \o sep \o JoinWith(Tail(ss), sep)

\* s[i:j] of Python (0-based, j exclusive, both clipped) as a 1-based SubSeq
Slice(s, i, j) ==
  LET lo == IF i < 0 THEN 0 ELSE i
      hi == IF j > Len(s) THEN Len(s) ELSE j
  IN  IF hi <= lo THEN <<>> ELSE SubSeq(s, lo + 1, hi)

\* whether sub occurs in s as a contiguous run (Python's `sub in s`)
IsSubSeq(sub, s) ==
  \E i \in 0..(Len(s) - Len(sub)) : SubSeq(s, i + 1, i + Len(sub)) = sub

SelectIdx(s, P(_)) == {i \in 1..Len(s) : P(s[i])}

Min(S) == CHOOSE x \in S : \A y \in S : x <= y

Max(S) == CHOOSE x \in S : \A y \in S : x >= y

RECURSIVE DigitsToInt(_)
\* int("000") = 0, int("30") = 30
DigitsToInt(ds) ==
  IF ds = <<>> THEN 0 ELSE 10 * DigitsToInt(SubSeq(ds, 1, Len(ds) - 1)) + ds[Len(ds)]

\* ------------------------------------------------ regular expressions

\* \b(FOB|DAP|EXW|CIF|DDP)\b with re.I
Incoterms == {"FOB", "DAP", "EXW", "CIF", "DDP"}

HasIncoterm(ln) == \E i \in 1..Len(ln) : ln[i].k = "word" /\ ln[i].s \in Incoterms

\* \$ : only a money token is spelled with a dollar sign
HasDollar(ln) == \E i \in 1..Len(ln) : ln[i].k = "money"

\* \$\s*[\d,]+\.\d{2} within one token: a dollar amount with two decimals
IsPriceTok(t) == t.k = "money" /\ Len(t.a) >= 1 /\ Len(t.c) >= 2

HasPrice(ln) == \E i \in 1..Len(ln) : IsPriceTok(ln[i])

\* \b\d{1,2}\s*-\s*\d{1,2}\b within one token: both runs of 1 or 2 digits
IsLtTok(t) == t.k = "range" /\ Len(t.a) \in 1..2 /\ Len(t.b) \in 1..2

HasLt(ln) == \E i \in 1..Len(ln) : IsLtTok(ln[i])

\* \b\d+\-\d+\b : any range token
HasDashPair(ln) == \E i \in 1..Len(ln) : ln[i].k = "range"

\* Rated\s*Current and Cable\s*Length with re.I
HasRated(ln) == \E i \in 1..Len(ln) : ln[i].k = "phrase" /\ ln[i].s = "Rated Current"

HasCable(ln) == \E i \in 1..Len(ln) : ln[i].k = "phrase" /\ ln[i].s = "Cable Length"

\* re.fullmatch(r"\d+(?:,\d+)?", ln)
IsBareNumberLine(ln) == Len(ln) = 1 /\ ln[1].k \in {"int", "cint"} /\ ~ln[1].colon

\* The digit run that ends token t and starts at a word boundary: what
\* \b(\d+)\b\s can capture at the end of t.  Words of the vocabulary never end
\* in a digit.
TailDigits(t) ==
  CASE t.colon -> NoDigits
    [] t.k = "int" -> t.a
    [] t.k = "cint" -> t.b
    [] t.k = "range" -> t.b
    [] t.k = "money" -> IF t.c # NoDigits THEN t.c ELSE IF t.b # NoDigits THEN t.b ELSE t.a
    [] OTHER -> NoDigits

\* ---------------------------------------------------------------- helpers

\* strip_bullet: the leading run of "-" and bullet characters goes, then N
strip_bullet(ln) == IF ln # <<>> /\ ln[1].k = "bullet" THEN Tail(ln) ELSE ln

\* [f(x) for x in lines if f(x)] for f = strip_bullet
RECURSIVE StripAll(_)
StripAll(lines) ==
  IF lines = <<>> THEN <<>>
  ELSE LET x == strip_bullet(Head(lines))
       IN  (IF x = <<>> THEN <<>> ELSE <<x>>) \o StripAll(Tail(lines))

\* [x for x in lines if N(x)]
IsNonEmptyLine(ln) == ln # <<>>

NonEmpty(lines) == SelectSeq(lines, IsNonEmptyLine)

\* A lead-time string: "" is NoLT, "8-10" is [lo, hi, wks |-> FALSE] and
\* "8-10wks" the same with wks |-> TRUE.
NoLT == [lo |-> NoDigits, hi |-> NoDigits, wks |-> FALSE]

LtText(lo, hi) == [lo |-> lo, hi |-> hi, wks |-> FALSE]

add_wks(lt) ==
  IF lt = NoLT THEN NoLT
  ELSE IF lt.wks THEN lt
  ELSE IF Len(lt.lo) \in 1..2 /\ Len(lt.hi) \in 1..2 THEN [lt EXCEPT !.wks = TRUE]
  ELSE lt

\* money_to_float on the text "a[,b].cc" that group 2 of the price pattern
\* captured: the commas go and the number is read; prices are kept in
\* hundredths, so 511.88 is 51188
money_to_float(t) ==
  100 * DigitsToInt(t.a \o t.b) + DigitsToInt(SubSeq(t.c, 1, 2))

\* float(m.group(3).replace(",", "")) of parse_nre, on "a[,b]", in hundredths
NreFloat(t) == 100 * DigitsToInt(t.a \o t.b)

\* ln.split(":", 1): the text after the first colon, "" when there is none
AfterColon(ln) ==
  LET cs == {i \in 1..Len(ln) : ln[i].colon}
  IN  IF cs = {} THEN <<>> ELSE SubSeq(ln, Min(cs) + 1, Len(ln))

\* "; ".join(parts): the separator is kept as a token of its own
Semi == [k |-> "sep", s |-> ";", a |-> NoDigits, b |-> NoDigits, c |-> NoDigits, colon |-> FALSE]

JoinDesc(parts) == JoinWith(parts, <<Semi>>)

\* " ".join(parts) followed by N
JoinSpace(parts) == Concat(parts)

\* ------------------------------------- parse_product_spec_from_block

\* [ln for ln in lines if Keep(ln)]
FilterLines(lines, Keep(_)) == SelectSeq(lines, Keep)

\* the index (1-based) the loop leaves in rated_idx / cable_idx: the last
\* matching line, 0 for None
LastIdx(clean, P(_)) ==
  LET S == SelectIdx(clean, P) IN IF S = {} THEN 0 ELSE Max(S)

IsLabelLine(ln) == HasRated(ln) \/ HasCable(ln)

\* a faulty variant of DescKeepAfterCable: the label lines are not skipped
DescKeepAfterCableDup(ln) == ~(HasPrice(ln) \/ IsBareNumberLine(ln))

\* the lines kept below the cable-length line
DescKeepAfterCable(ln) == ~IsLabelLine(ln) /\ ~(HasPrice(ln) \/ IsBareNumberLine(ln))

\* the lines kept below the rated-current line when there is no cable line
DescKeepAfterRated(ln) == ~IsLabelLine(ln) /\ ~HasPrice(ln)

\* Product: the line above the rated-current line, else the first line
ProductLine(clean, rated_idx) ==
  IF rated_idx # 0 /\ rated_idx - 1 >= 1 THEN clean[rated_idx - 1] ELSE clean[1]

DescParts(clean, rated_idx, cable_idx) ==
  IF cable_idx # 0
  THEN FilterLines(SubSeq(clean, cable_idx + 1, Len(clean)), DescKeepAfterCable)
  ELSE LET start == IF rated_idx # 0 THEN rated_idx + 1 ELSE 2
       IN  FilterLines(SubSeq(clean, start, Len(clean)), DescKeepAfterRated)

EmptySpec == [product |-> <<>>, rated |-> <<>>, cable |-> <<>>, desc |-> <<>>]

parse_product_spec_from_block(block_lines) ==
  LET clean == StripAll(block_lines)
      rated_idx == LastIdx(clean, HasRated)
      cable_idx == LastIdx(clean, HasCable)
  IN  IF clean = <<>> THEN EmptySpec
      ELSE [product |-> ProductLine(clean, rated_idx),
            rated |-> IF rated_idx # 0 THEN AfterColon(clean[rated_idx]) ELSE <<>>,
            cable |-> IF cable_idx # 0 THEN AfterColon(clean[cable_idx]) ELSE <<>>,
            desc |-> JoinDesc(DescParts(clean, rated_idx, cable_idx))]

\* ------------------------------------------------------------- spelling

\* The lower-case spelling of the words of the vocabulary, character by
\* character: best_match_delivery compares lower-cased substrings.
LowerSpell(s) ==
  CASE s = "FOB" -> <<"f", "o", "b">>
    [] s = "DAP" -> <<"d", "a", "p">>
    [] s = "EXW" -> <<"e", "x", "w">>
    [] s = "CIF" -> <<"c", "i", "f">>
    [] s = "DDP" -> <<"d", "d", "p">>
    [] s = "Shanghai" -> <<"s", "h", "a", "n", "g", "h", "a", "i">>
    [] s = "Korea" -> <<"k", "o", "r", "e", "a">>
    [] s = "by" -> <<"b", "y">>
    [] s = "Sea" -> <<"s", "e", "a">>
    [] s = "Air" -> <<"a", "i", "r">>
    [] s = "SH" -> <<"s", "h">>
    [] s = "Sample" -> <<"s", "a", "m", "p", "l", "e">>
    [] s = "Prod" -> <<"p", "r", "o", "d">>
    [] s = "Plug" -> <<"p", "l", "u", "g">>
    [] s = "Cord" -> <<"c", "o", "r", "d">>
    [] s = "Mold" -> <<"m", "o", "l", "d">>
    [] s = "5A" -> <<"5", "a">>
    [] s = "2m" -> <<"2", "m">>
    [] s = "Necessary" -> <<"n", "e", "c", "e", "s", "s", "a", "r", "y">>
    [] s = "for" -> <<"f", "o", "r">>
    [] s = "MP" -> <<"m", "p">>
    [] s = "Item" -> <<"i", "t", "e", "m">>
    [] s = "Description" -> <<"d", "e", "s", "c", "r", "i", "p", "t", "i", "o", "n">>
    [] s = "Qty" -> <<"q", "t", "y">>
    [] s = "Amount" -> <<"a", "m", "o", "u", "n", "t">>
    [] s = "Remark" -> <<"r", "e", "m", "a", "r", "k">>
    [] s = "Rated Current" -> <<"r", "a", "t", "e", "d", " ", "c", "u", "r", "r", "e", "n", "t">>
    [] s = "Cable Length" -> <<"c", "a", "b", "l", "e", " ", "l", "e", "n", "g", "t", "h">>
    [] s = "NRE List" -> <<"n", "r", "e", " ", "l", "i", "s", "t">>
    [] s = "Note" -> <<"n", "o", "t", "e">>
    [] s = "To" -> <<"t", "o">>
    [] s = "From" -> <<"f", "r", "o", "m">>
    [] s = "Date" -> <<"d", "a", "t", "e">>
    [] s = "-" -> <<"-">>
    [] s = ";" -> <<";">>

DigitChar(d) ==
  CASE d = 0 -> "0" [] d = 1 -> "1" [] d = 2 -> "2" [] d = 3 -> "3" [] d = 4 -> "4"
    [] d = 5 -> "5" [] d = 6 -> "6" [] d = 7 -> "7" [] d = 8 -> "8" [] d = 9 -> "9"

SpellDigits(ds) == [i \in 1..Len(ds) |-> DigitChar(ds[i])]

\* the characters of a token, lower-cased
SpellTok(t) ==
  (CASE t.k \in {"word", "phrase", "bullet", "sep"} -> LowerSpell(t.s)
     [] t.k = "int" -> SpellDigits(t.a)
     [] t.k = "cint" -> SpellDigits(t.a) \o <<",">> \o SpellDigits(t.b)
     [] t.k = "range" -> SpellDigits(t.a) \o <<"-">> \o SpellDigits(t.b)
     [] t.k = "money" ->
          <<"$">> \o SpellDigits(t.a)
          \o (IF t.b # NoDigits THEN <<",">> \o SpellDigits(t.b) ELSE <<>>)
          \o (IF t.c # NoDigits THEN <<".">> \o SpellDigits(t.c) ELSE <<>>))
  \o (IF t.colon THEN <<":">> ELSE <<>>)

\* s.lower() of a line: its tokens, one space between them
SpellLine(ln) == JoinWith([i \in 1..Len(ln) |-> SpellTok(ln[i])], <<" ">>)

RECURSIVE SplitSpace(_, _)
\* set(cs.split()), cur being the word read so far
SplitSpace(cs, cur) ==
  IF cs = <<>> THEN (IF cur = <<>> THEN {} ELSE {cur})
  ELSE IF Head(cs) = " "
       THEN (IF cur = <<>> THEN {} ELSE {cur}) \cup SplitSpace(Tail(cs), <<>>)
       ELSE SplitSpace(Tail(cs), Append(cur, Head(cs)))

\* ------------------------------------------------- parse_pricing_groups

\* the most digits \b(\d{1,6})\b takes as a quantity
MoqMaxDigits == 6

\* the most digits each side of a lead-time range may have (\d{1,2})
LtMaxDigits == 2

\* Where \b(\d{1,6})\b\s+\$([\d,]+\.\d{2}) matches first in the line: the
\* index of the token whose closing digit run is group 1, the next token
\* being the price; 0 when the pattern does not match.
PriceMatchIdx(ln) ==
  LET S == {i \in 1..(Len(ln) - 1) :
              /\ Len(TailDigits(ln[i])) \in 1..MoqMaxDigits
              /\ IsPriceTok(ln[i + 1])}
  IN  IF S = {} THEN 0 ELSE Min(S)

\* group 3, (?:\s+(\d{1,2}\s*-\s*\d{1,2}))?, read right after the price:
\* one or two digits, a dash, and the first one or two digits that follow
LtGroup(ln, i) ==
  IF /\ i + 2 <= Len(ln)
     /\ Len(ln[i + 1].c) = 2 /\ ~ln[i + 1].colon
     /\ ln[i + 2].k = "range"
     /\ Len(ln[i + 2].a) \in 1..LtMaxDigits
     /\ Len(ln[i + 2].b) >= 1
  THEN LtText(ln[i + 2].a,
              SubSeq(ln[i + 2].b, 1, IF Len(ln[i + 2].b) > LtMaxDigits
                                      THEN LtMaxDigits ELSE Len(ln[i + 2].b)))
  ELSE NoLT

\* the tuple (moq, price, lt) of a line the pattern matches
PriceRow(ln) ==
  LET i == PriceMatchIdx(ln)
  IN  [moq |-> DigitsToInt(TailDigits(ln[i])),
       price |-> money_to_float(ln[i + 1]),
       lt |-> add_wks(LtGroup(ln, i))]

IsDeliveryLine(ln) == HasIncoterm(ln) /\ ~HasDollar(ln)

\* groups is the dict in insertion order: a sequence of [d, rows]
\* a faulty variant of AppendRow: the row goes to the first group of the dict
AppendRowFirst(gs, d, row) ==
  [gs EXCEPT ![1].rows = Append(@, row)]

GroupIdx(gs, d) ==
  LET S == {i \in 1..Len(gs) : gs[i].d = d} IN IF S = {} THEN 0 ELSE Min(S)

SetDefault(gs, d) ==
  IF GroupIdx(gs, d) # 0 THEN gs ELSE Append(gs, [d |-> d, rows |-> <<>>])

AppendRow(gs, d, row) ==
  [gs EXCEPT ![GroupIdx(gs, d)].rows = Append(@, row)]

RECURSIVE FillFrom(_, _)
\* the fill-down loop over one group's rows, last_lt being the value carried
FillFrom(rows, last_lt) ==
  IF rows = <<>> THEN <<>>
  ELSE LET r == Head(rows)
           carried == IF r.lt # NoLT THEN r.lt ELSE last_lt
       IN  <<[r EXCEPT !.lt = IF r.lt # NoLT THEN r.lt ELSE carried]>>
           \o FillFrom(Tail(rows), carried)

\* a faulty variant of FillDown: only the row right below a value is filled
FillDownOnce(rows) ==
  [i \in 1..Len(rows) |->
     IF rows[i].lt = NoLT /\ i > 1 THEN [rows[i] EXCEPT !.lt = rows[i - 1].lt]
     ELSE rows[i]]

\* one group's rows after the fill-down, last_lt starting empty
FillDown(rows) == FillFrom(rows, NoLT)

FillGroups(gs) == [i \in 1..Len(gs) |-> [d |-> gs[i].d, rows |-> FillDown(gs[i].rows)]]

\* ---------------------------------------------------- split_item_blocks

\* a line that opens a chunk on the "1-1, 1-2" path: ^\s*(?=\d+\-\d+\b)
StartsDashPair(ln) == ln # <<>> /\ ln[1].k = "range"

\* a line that opens a chunk on the fallback path: ^\s*(?=\d+\s*$)
IsDigitLine(ln) == Len(ln) = 1 /\ ln[1].k = "int" /\ ~ln[1].colon

\* the chunk that starts at line i and runs to the next starting line
ChunkAt(lines, starts, i) ==
  LET later == {j \in starts : j > i}
  IN  SubSeq(lines, i, IF later = {} THEN Len(lines) ELSE Min(later) - 1)

RECURSIVE ChunksFrom(_, _, _)
ChunksFrom(lines, starts, i) ==
  IF i > Len(lines) THEN <<>>
  ELSE (IF i \in starts THEN <<ChunkAt(lines, starts, i)>> ELSE <<>>)
       \o ChunksFrom(lines, starts, i + 1)

\* re.match(r"^\d+\s*$", N(c)): the chunk holds nothing but its number
IsDigitChunk(c) == NonEmpty(c) = <<c[1]>>

split_item_blocks(lines) ==
  IF \E i \in 1..Len(lines) : HasDashPair(lines[i])
  THEN ChunksFrom(lines, SelectIdx(lines, StartsDashPair), 1)
  ELSE SelectSeq(ChunksFrom(lines, SelectIdx(lines, IsDigitLine), 1), IsDigitChunk)

\* ------------------------- parse_delivery_from_block, parse_lt_from_block

\* how far past the delivery line the following lines are joined to it
DeliveryLookahead == 3

RECURSIVE DeliveryParts(_, _, _)
\* the lines j..last appended until one holds a lead time or a price
DeliveryParts(lines, j, last) ==
  IF j > last THEN <<>>
  ELSE IF HasLt(lines[j]) \/ HasPrice(lines[j]) THEN <<>>
  ELSE <<lines[j]>> \o DeliveryParts(lines, j + 1, last)

parse_delivery_from_block(block) ==
  LET lines == StripAll(block)
      S == SelectIdx(lines, HasIncoterm)
  IN  IF S = {} THEN <<>>
      ELSE LET i == Min(S)
               last == IF i + DeliveryLookahead > Len(lines) THEN Len(lines)
                       ELSE i + DeliveryLookahead
           IN  JoinSpace(<<lines[i]>> \o DeliveryParts(lines, i + 1, last))

\* the first \b(\d{1,2}\s*-\s*\d{1,2})\b of the block, with "wks"
parse_lt_from_block(block) ==
  LET toks == Concat(block)
      S == SelectIdx(toks, IsLtTok)
  IN  IF S = {} THEN NoLT ELSE add_wks(LtText(toks[Min(S)].a, toks[Min(S)].b))

\* -------------------------------------------------- best_match_delivery

MatchTokens ==
  {<<"f","o","b">>, <<"d","a","p">>, <<"e","x","w">>, <<"c","i","f">>, <<"d","d","p">>,
   <<"s","h","a","n","g","h","a","i">>, <<"k","o","r","e","a">>, <<"s","e","a">>,
   <<"a","i","r">>, <<"f","e","r","r","y">>}

MatchScore(it, kk) ==
  2 * Cardinality({t \in MatchTokens : IsSubSeq(t, it) /\ IsSubSeq(t, kk)})
  + Cardinality({w \in SplitSpace(it, <<>>) : IsSubSeq(w, kk)})

\* the first key with the highest score; "" for an empty item_delivery or no key
best_match_delivery(item_delivery, delivery_keys) ==
  IF item_delivery = <<>> \/ delivery_keys = <<>> THEN <<>>
  ELSE LET it == SpellLine(item_delivery)
           sc == [i \in 1..Len(delivery_keys) |-> MatchScore(it, SpellLine(delivery_keys[i]))]
           best == Min({i \in 1..Len(sc) : \A j \in 1..Len(sc) : sc[j] <= sc[i]})
       IN  delivery_keys[best]

\* -------------------------------------------------------------- parse_nre

IsNreList(t) == t.k = "phrase" /\ t.s = "NRE List"

HasNreList(ln) == \E i \in 1..Len(ln) : IsNreList(ln[i])

\* re.split(r"\bNRE\s*List\b", text)[-1], as non-empty lines: what follows the
\* last "NRE List"
NreTail(lines) ==
  LET li == Max(SelectIdx(lines, HasNreList))
      ti == Max({i \in 1..Len(lines[li]) : IsNreList(lines[li][i])})
  IN  NonEmpty(<<SubSeq(lines[li], ti + 1, Len(lines[li]))>> \o SubSeq(lines, li + 1, Len(lines)))

\* how many lines of the section are searched for the cavity number
CavityWindow == 20

\* "$a" or "$a,b" and nothing more: \$([\d,]+) followed by white space
IsWholeDollars(t) == t.k = "money" /\ Len(t.a) >= 1 /\ t.c = NoDigits /\ ~t.colon

\* \$\s*[\d,]+\s+\$\s*[\d,]+ : two dollar amounts side by side
IsNreKeyLine(ln) ==
  \E i \in 1..(Len(ln) - 1) : IsWholeDollars(ln[i]) /\ ln[i + 1].k = "money" /\ Len(ln[i + 1].a) >= 1

\* \b(\d+)\s+(\d+)\s+\$([\d,]+)\s+\$([\d,]+)\s+(\d{1,2}\-\d{1,2})\s*(.*)$ :
\* the index of the token that ends with group 1, 0 when there is no match
NreMatchIdx(ln) ==
  LET S == {i \in 1..(Len(ln) - 4) :
              /\ TailDigits(ln[i]) # NoDigits
              /\ ln[i + 1].k = "int" /\ ~ln[i + 1].colon
              /\ IsWholeDollars(ln[i + 2])
              /\ IsWholeDollars(ln[i + 3])
              /\ ln[i + 4].k = "range"
              /\ Len(ln[i + 4].a) \in 1..LtMaxDigits
              /\ Len(ln[i + 4].b) >= 1}
  IN  IF S = {} THEN 0 ELSE Min(S)

NreHeaderWords == {"Item", "Description", "Qty", "Unit Price", "Amount", "Remark", "L/T"}

HasNreHeaderWord(ln) == \E i \in 1..Len(ln) : ln[i].k \in {"word", "phrase"} /\ ln[i].s \in NreHeaderWords

IsNreDescLine(ln) == ~HasNreHeaderWord(ln)

\* a faulty variant of NreRow: the quantity is the item index (group 1) and the price
\* the amount (group 4)
NreRowAmount(key) ==
  LET i == NreMatchIdx(key)
      r == key[i + 4]
  IN  [qty |-> DigitsToInt(TailDigits(key[i])),
       unit_price |-> NreFloat(key[i + 3]),
       lt |-> add_wks(LtText(r.a, SubSeq(r.b, 1, IF Len(r.b) > LtMaxDigits THEN LtMaxDigits ELSE Len(r.b)))),
       remark |-> SubSeq(key, i + 5, Len(key))]

\* qty, unit_price, lt and remark from the groups of the match
NreRow(key) ==
  LET i == NreMatchIdx(key)
      r == key[i + 4]
      hi == SubSeq(r.b, 1, IF Len(r.b) > LtMaxDigits THEN LtMaxDigits ELSE Len(r.b))
      rest == IF Len(r.b) > LtMaxDigits THEN <<Num(SubSeq(r.b, LtMaxDigits + 1, Len(r.b)))>> ELSE <<>>
  IN  [qty |-> DigitsToInt(key[i + 1].a),
       unit_price |-> NreFloat(key[i + 2]),
       lt |-> add_wks(LtText(r.a, hi)),
       remark |-> rest \o SubSeq(key, i + 5, Len(key))]

\* the dict parse_nre returns, as a one-element sequence; <<>> for None
parse_nre(text) ==
  LET all == NonEmpty(text)
  IN  IF ~\E i \in 1..Len(all) : HasNreList(all[i]) THEN <<>>
      ELSE LET lines == NreTail(all)
               cav == SelectIdx(Slice(lines, 0, CavityWindow), IsDigitLine)
               keys == SelectIdx(lines, IsNreKeyLine)
           IN  IF keys = {} THEN <<>>
               ELSE LET key == lines[Min(keys)]
                        first == Min({i \in 1..Len(lines) : lines[i] = key})
                        desc_lines == SelectSeq(SubSeq(lines, 1, first - 1), IsNreDescLine)
                        product_desc == JoinSpace(desc_lines)
                    IN  IF NreMatchIdx(key) = 0 THEN <<>>
                        ELSE <<[Product |-> IF product_desc = <<>> THEN <<W("NRE")>> ELSE product_desc,
                                RatedCurrent |-> <<>>,
                                CableLength |-> <<>>,
                                Description |-> IF cav = {} THEN <<>>
                                                ELSE <<W("Cavity")>> \o lines[Min(cav)],
                                DeliveryTerm |-> <<Phrase("NRE List", FALSE)>>,
                                MOQ |-> NreRow(key).qty,
                                Price |-> NreRow(key).unit_price,
                                LT |-> NreRow(key).lt,
                                Remark |-> NreRow(key).remark]>>

\* ---------------------------------------------------------- parse_date_any

\* A date string is a sequence of fragments.  A fragment is a word or a date
\* written in one of the three shapes parse_date_any looks for:
\*   "mdy"  [A-Za-z]{3}\.?\s+\d{1,2},\s+\d{4}   Nov. 19, 2025
\*   "ymd"  \d{4}-\d{2}-\d{2}                   2025-10-14
\*   "dmy"  \d{1,2}-[A-Za-z]{3}-\d{2}           16-Dec-25
Frag(k, y, m, d) == [k |-> k, y |-> y, m |-> m, d |-> d]

NoDate == [k |-> "empty", y |-> 0, m |-> 0, d |-> 0]

\* a faulty variant of DatePatterns: the day-month-year shape is tried first
DatePatternsDmyFirst == <<"dmy", "mdy", "ymd">>

\* the patterns in the order the loop tries them
DatePatterns == <<"mdy", "ymd", "dmy">>

\* re.search(p, s): the leftmost fragment of shape p, 0 when there is none
SearchFrag(p, s) ==
  LET S == {i \in 1..Len(s) : s[i].k = p} IN IF S = {} THEN 0 ELSE Min(S)

\* the first pattern of the list that matches somewhere in s, 0 for none
FirstPattern(s) ==
  LET S == {j \in 1..Len(DatePatterns) : SearchFrag(DatePatterns[j], s) # 0}
  IN  IF S = {} THEN 0 ELSE Min(S)

\* The external interpreter's reading of a matched fragment, then
\* strftime("%Y-%m-%d"): a two-digit year is read in the current century.
Interpret(f) == [k |-> "iso", y |-> IF f.y < 100 THEN 2000 + f.y ELSE f.y, m |-> f.m, d |-> f.d]

\* parse_date_any(s), ok telling whether the interpreter accepts the match
parse_date_any(s, ok) ==
  LET j == FirstPattern(s)
  IN  IF j = 0 THEN NoDate
      ELSE LET f == s[SearchFrag(DatePatterns[j], s)]
           IN  IF ok THEN Interpret(f) ELSE f

\* ================================================================ state

VARIABLES
  pc,               \* where the run stands
  text,             \* parse_quote_file: the extracted text, line by line
  item_blocks,      \* split_item_blocks(text)
  bi,               \* the item block the first loop is at
  item_infos,
  li,               \* the line the scan of parse_pricing_groups is at
  current_delivery,
  groups,           \* delivery -> rows, before the fill-down
  pricing,          \* what parse_pricing_groups returns (fixed)
  ei,               \* the item_info the second loop is at
  out,              \* the records
  nre,              \* what parse_nre returned
  block_lines,      \* parse_product_spec_from_block: its argument
  product_spec,     \* ... and its result
  date_s,           \* parse_date_any: its argument
  interp_ok,        \* whether the date interpreter accepted the match
  date_val          \* ... and its result

quote_vars == <<text, item_blocks, bi, item_infos, li, current_delivery, groups, pricing, ei, out, nre>>

product_vars == <<block_lines, product_spec>>

date_vars == <<date_s, interp_ok, date_val>>

vars == <<pc, text, item_blocks, bi, item_infos, li, current_delivery, groups, pricing, ei, out, nre,
          block_lines, product_spec, date_s, interp_ok, date_val>>

\* ------------------------------------------------------ parse_quote_file

\* lines before and after the first rated-current line that go to the
\* product segmenter, and the lines taken when the block has none
CutBefore == 3

CutAfter == 25

CutDefault == 30

\* the lines of a block handed to parse_product_spec_from_block
CutLines(blk) ==
  LET lines == NonEmpty(blk)
      idxs == SelectIdx(lines, HasRated)
  IN  IF idxs # {}
      THEN Slice(lines, (Min(idxs) - 1) - CutBefore, (Min(idxs) - 1) + CutAfter)
      ELSE Slice(lines, 0, CutDefault)

\* the dict the first loop builds for a block
ItemInfo(blk) ==
  LET ps == parse_product_spec_from_block(CutLines(blk))
  IN  [product |-> ps.product, rated |-> ps.rated, cable |-> ps.cable, desc |-> ps.desc,
       delivery_item |-> parse_delivery_from_block(blk),
       lt_item |-> parse_lt_from_block(blk)]

\* not (product or rated or cable or desc or delivery)
IsBlankInfo(info) ==
  /\ info.product = <<>> /\ info.rated = <<>> /\ info.cable = <<>>
  /\ info.desc = <<>> /\ info.delivery_item = <<>>

PricingKeys(pr) == [i \in 1..Len(pr) |-> pr[i].d]

\* the records of one item_info: one per row of the best-matching group
RecordsOf(info, pr) ==
  LET key == best_match_delivery(info.delivery_item, PricingKeys(pr))
      g == GroupIdx(pr, key)
  IN  IF key = <<>> \/ g = 0 THEN <<>>
      ELSE [r \in 1..Len(pr[g].rows) |->
              [Product |-> info.product,
               RatedCurrent |-> info.rated,
               CableLength |-> info.cable,
               Description |-> info.desc,
               DeliveryTerm |-> key,
               MOQ |-> pr[g].rows[r].moq,
               Price |-> pr[g].rows[r].price,
               LT |-> IF pr[g].rows[r].lt # NoLT THEN pr[g].rows[r].lt ELSE info.lt_item,
               Remark |-> <<>>]]

ScanLines == NonEmpty(text)

\* item_blocks = split_item_blocks(text)
SplitItemBlocks ==
  /\ pc = "split"
  /\ item_blocks' = split_item_blocks(text)
  /\ pc' = IF item_blocks' = <<>> THEN "scan" ELSE "items"
  /\ UNCHANGED <<text, bi, item_infos, li, current_delivery, groups, pricing, ei, out, nre>>
  /\ UNCHANGED <<product_vars, date_vars>>

\* one turn of "for blk in item_blocks"
ItemStep ==
  /\ pc = "items"
  /\ LET info == ItemInfo(item_blocks[bi])
     IN  item_infos' = IF IsBlankInfo(info) THEN item_infos ELSE Append(item_infos, info)
  /\ bi' = bi + 1
  /\ pc' = IF bi = Len(item_blocks) THEN "scan" ELSE "items"
  /\ UNCHANGED <<text, item_blocks, li, current_delivery, groups, pricing, ei, out, nre>>
  /\ UNCHANGED <<product_vars, date_vars>>

\* one turn of "for ln in lines" of parse_pricing_groups
ScanLine ==
  /\ pc = "scan"
  /\ li <= Len(ScanLines)
  /\ LET ln == ScanLines[li]
     IN  IF IsDeliveryLine(ln)
         THEN /\ current_delivery' = ln
              /\ groups' = SetDefault(groups, ln)
         ELSE /\ current_delivery' = current_delivery
              /\ groups' = IF PriceMatchIdx(ln) # 0 /\ current_delivery # <<>>
                           THEN AppendRow(groups, current_delivery, PriceRow(ln))
                           ELSE groups
  /\ li' = li + 1
  /\ UNCHANGED <<pc, text, item_blocks, bi, item_infos, pricing, ei, out, nre>>
  /\ UNCHANGED <<product_vars, date_vars>>

\* the fill-down loop and the return of parse_pricing_groups
FillDownGroups ==
  /\ pc = "scan"
  /\ li > Len(ScanLines)
  /\ pricing' = FillGroups(groups)
  /\ pc' = IF item_infos = <<>> THEN "nre" ELSE "emit"
  /\ UNCHANGED <<text, item_blocks, bi, item_infos, li, current_delivery, groups, ei, out, nre>>
  /\ UNCHANGED <<product_vars, date_vars>>

\* one turn of "for info in item_infos"
EmitStep ==
  /\ pc = "emit"
  /\ out' = out \o RecordsOf(item_infos[ei], pricing)
  /\ ei' = ei + 1
  /\ pc' = IF ei = Len(item_infos) THEN "nre" ELSE "emit"
  /\ UNCHANGED <<text, item_blocks, bi, item_infos, li, current_delivery, groups, pricing, nre>>
  /\ UNCHANGED <<product_vars, date_vars>>

\* nre = parse_nre(text), its row appended, and the return
NreStep ==
  /\ pc = "nre"
  /\ nre' = parse_nre(text)
  /\ out' = out \o nre'
  /\ pc' = "done"
  /\ UNCHANGED <<text, item_blocks, bi, item_infos, li, current_delivery, groups, pricing, ei>>
  /\ UNCHANGED <<product_vars, date_vars>>

\* ------------------------------------------------ the pure functions

ProductStep ==
  /\ pc = "product"
  /\ product_spec' = parse_product_spec_from_block(block_lines)
  /\ pc' = "done"
  /\ UNCHANGED <<quote_vars, block_lines, date_vars>>

DateStep ==
  /\ pc = "date"
  /\ \E ok \in BOOLEAN :
       /\ interp_ok' = ok
       /\ date_val' = parse_date_any(date_s, ok)
  /\ pc' = "done"
  /\ UNCHANGED <<quote_vars, product_vars, date_s>>

\* =============================================================== inputs

SeqsUpTo(S, n) == UNION {[1..m -> S] : m \in 0..n}

\* "FOB Shanghai", "DAP Korea by Sea", "DAP Korea by Air"
Terms ==
  << <<W("FOB"), W("Shanghai")>>,
     <<W("DAP"), W("Korea"), W("by"), W("Sea")>>,
     <<W("DAP"), W("Korea"), W("by"), W("Air")>> >>

\* "30 $511.88 8-10"
RowA == <<Num(<<3, 0>>), Money(<<5, 1, 1>>, NoDigits, <<8, 8>>), Range(<<8>>, <<1, 0>>)>>

\* "100 $5.00 4-6"
RowB == <<Num(<<1, 0, 0>>), Money(<<5>>, NoDigits, <<0, 0>>), Range(<<4>>, <<6>>)>>

\* "500 $3.50"
RowC == <<Num(<<5, 0, 0>>), Money(<<3>>, NoDigits, <<5, 0>>)>>

\* "1,000 $3.50"
RowD == <<CNum(<<1>>, <<0, 0, 0>>), Money(<<3>>, NoDigits, <<5, 0>>)>>

\* "0 $3.50 0-5"
RowE == <<Num(<<0>>), Money(<<3>>, NoDigits, <<5, 0>>), Range(<<0>>, <<5>>)>>

\* "30 $511.88 45-60"
RowF == <<Num(<<3, 0>>), Money(<<5, 1, 1>>, NoDigits, <<8, 8>>), Range(<<4, 5>>, <<6, 0>>)>>

\* the price lines an item block may hold under its delivery term
RowChoices == {<<>>, <<RowA>>, <<RowB>>, <<RowC>>, <<RowA, RowC>>, <<RowD, RowE, RowF>>}

\* "1-k Prod"
HeadLine(k) == <<Range(<<1>>, <<k>>), W("Prod")>>

\* "Rated Current: 5A"
RatedLine == <<Phrase("Rated Current", TRUE), W("5A")>>

\* item k of a quotation: its index and name, the rated current, the
\* delivery term of its slot and the price lines
ItemLines(k, rows) ==
  <<HeadLine(k), RatedLine, Terms[((k - 1) % Len(Terms)) + 1]>> \o rows

\* "1 FOB SH Sample $535.62 4-6"
SampleLine ==
  <<Num(<<1>>), W("FOB"), W("SH"), W("Sample"), Money(<<5, 3, 5>>, NoDigits, <<6, 2>>), Range(<<4>>, <<6>>)>>

\* "1 3 $3,000 $9,000 4-6 Necessary for MP"
NreKeyLine ==
  <<Num(<<1>>), Num(<<3>>), Money(<<3>>, <<0, 0, 0>>, NoDigits), Money(<<9>>, <<0, 0, 0>>, NoDigits),
    Range(<<4>>, <<6>>), W("Necessary"), W("for"), W("MP")>>

\* "1 0 $3,000 $9,000 4-6 Necessary for MP"
NreKeyLineZero == [NreKeyLine EXCEPT ![2] = Num(<<0>>)]

\* "$3,000 $9,000": two amounts, not the shape of the pricing line
NreKeyLineBare == <<Money(<<3>>, <<0, 0, 0>>, NoDigits), Money(<<9>>, <<0, 0, 0>>, NoDigits)>>

NreHead ==
  << <<Phrase("NRE List", FALSE)>>,
     <<W("Item"), W("Description"), W("Qty"), W("Amount"), W("Remark")>>,
     <<W("Mold")>>,
     <<Num(<<2>>)>> >>

\* items numbered "1", "2" instead of "1-1", "1-2"
DigitItems == << <<Num(<<1>>)>>, <<Num(<<2>>)>>, <<W("Prod")>>, Terms[1], RowC >>

\* what stands before the items and what stands after them
Frames ==
  { <<<<>>, <<>>>>,
    <<<<SampleLine>>, <<>>>>,
    <<DigitItems, <<>>>>,
    <<<<>>, NreHead>>,
    <<<<>>, NreHead \o <<NreKeyLine>>>>,
    <<<<>>, NreHead \o <<NreKeyLineZero>>>>,
    <<<<>>, NreHead \o <<NreKeyLineBare>>>>,
    <<<<SampleLine>>, NreHead \o <<NreKeyLine>>>> }

\* the most items a quotation holds
MaxItems == 3

RECURSIVE ItemTexts(_)
\* the texts of k items
ItemTexts(k) ==
  IF k = 0 THEN {<<>>}
  ELSE {t \o ItemLines(k, rows) : t \in ItemTexts(k - 1), rows \in RowChoices}

QuoteTexts ==
  {fr[1] \o items \o fr[2] :
     fr \in Frames, items \in UNION {ItemTexts(k) : k \in 0..MaxItems}}

\* the most lines of a pricing table
MaxLines == 6

PricingPool == {Terms[1], Terms[2], RowA, RowB, RowC}

\* the most lines of a product block
MaxBlockLines == 4

BlockPool ==
  { <<W("Plug")>>,
    <<W("Cord")>>,
    <<Phrase("Rated Current", TRUE), W("5A")>>,
    <<Bullet, Phrase("Rated Current", FALSE), W("5A")>>,
    <<Phrase("Cable Length", TRUE), W("2m")>>,
    <<WC("Note"), Phrase("Cable Length", FALSE), W("2m")>>,
    <<Num(<<1, 2>>)>>,
    RowC,
    <<Bullet>>,
    <<>> }

\* the most fragments of a date string
MaxFrags == 3

FragPool ==
  { Frag("dmy", 25, 12, 16), Frag("mdy", 2025, 11, 19), Frag("ymd", 2025, 10, 14),
    Frag("dmy", 25, 1, 5), Frag("word", 0, 0, 0) }

\* ================================================================ specs

\* parse_quote_file on a quotation text
Init ==
  /\ pc = "split"
  /\ text \in QuoteTexts
  /\ item_blocks = <<>> /\ bi = 1 /\ item_infos = <<>> /\ li = 1
  /\ current_delivery = <<>> /\ groups = <<>> /\ pricing = <<>> /\ ei = 1
  /\ out = <<>> /\ nre = <<>>
  /\ block_lines = <<>> /\ product_spec = EmptySpec
  /\ date_s = <<>> /\ interp_ok = TRUE /\ date_val = NoDate

Next == SplitItemBlocks \/ ItemStep \/ ScanLine \/ FillDownGroups \/ EmitStep \/ NreStep

Spec == Init /\ [][Next]_vars

\* parse_pricing_groups on a pricing table
InitPricing ==
  /\ pc = "scan"
  /\ text \in SeqsUpTo(PricingPool, MaxLines)
  /\ item_blocks = <<>> /\ bi = 1 /\ item_infos = <<>> /\ li = 1
  /\ current_delivery = <<>> /\ groups = <<>> /\ pricing = <<>> /\ ei = 1
  /\ out = <<>> /\ nre = <<>>
  /\ block_lines = <<>> /\ product_spec = EmptySpec
  /\ date_s = <<>> /\ interp_ok = TRUE /\ date_val = NoDate

NextPricing == ScanLine \/ FillDownGroups

SpecPricing == InitPricing /\ [][NextPricing]_vars

\* parse_product_spec_from_block on a block of lines
InitProduct ==
  /\ pc = "product"
  /\ block_lines \in SeqsUpTo(BlockPool, MaxBlockLines)
  /\ product_spec = EmptySpec
  /\ text = <<>> /\ item_blocks = <<>> /\ bi = 1 /\ item_infos = <<>> /\ li = 1
  /\ current_delivery = <<>> /\ groups = <<>> /\ pricing = <<>> /\ ei = 1
  /\ out = <<>> /\ nre = <<>>
  /\ date_s = <<>> /\ interp_ok = TRUE /\ date_val = NoDate

NextProduct == ProductStep

SpecProduct == InitProduct /\ [][NextProduct]_vars

\* parse_date_any on a date string
InitDate ==
  /\ pc = "date"
  /\ date_s \in SeqsUpTo(FragPool, MaxFrags)
  /\ interp_ok = TRUE /\ date_val = NoDate
  /\ text = <<>> /\ item_blocks = <<>> /\ bi = 1 /\ item_infos = <<>> /\ li = 1
  /\ current_delivery = <<>> /\ groups = <<>> /\ pricing = <<>> /\ ei = 1
  /\ out = <<>> /\ nre = <<>>
  /\ block_lines = <<>> /\ product_spec = EmptySpec

NextDate == DateStep

SpecDate == InitDate /\ [][NextDate]_vars

\* =============================================================== claims

RangeOf(f) == {f[x] : x \in DOMAIN f}

\* the records of the general pricing path, and the NRE rows
IsNreRecord(r) == r.DeliveryTerm = <<Phrase("NRE List", FALSE)>>

GeneralRecords == {r \in RangeOf(out) : ~IsNreRecord(r)}

\* every lead time the run has produced so far: in the groups returned by
\* parse_pricing_groups and in the records
AllLeadTimes ==
  {r.LT : r \in RangeOf(out)}
  \cup UNION {{row.lt : row \in RangeOf(pricing[i].rows)} : i \in 1..Len(pricing)}

PlausibleLt(lt) ==
  lt = NoLT \/ (DigitsToInt(lt.lo) \in 1..30 /\ DigitsToInt(lt.hi) \in 1..30)

\* C1: no record of parse_quote_file and no tuple of parse_pricing_groups
\* carries a lead time "A-B" or "A-Bwks" with A or B outside 1..30.
C1_LeadTimeWithinRange == \A lt \in AllLeadTimes : PlausibleLt(lt)

\* the lead times a delivery-term group holds before the fill-down
GroupLts(i) == {row.lt : row \in RangeOf(groups[i].rows)} \ {NoLT}

\* the lead times of the records emitted for the delivery term of group i
RecordLts(i) == {r.LT : r \in {x \in GeneralRecords : x.DeliveryTerm = groups[i].d}}

ThreeTermsWithRecords ==
  /\ pc = "done"
  /\ Len(groups) = 3
  /\ \A i \in 1..3 : RecordLts(i) # {}

\* C2: with three delivery-term groups, two lead times [a, b] (term 1 has a,
\* term 2 has b, term 3 has none) give the records of terms 1, 2, 3 the lead
\* times [a, b, a]; one lead time [a] gives [a, a, a]; none gives all empty.
C2_LeadTimeBackfill ==
  ThreeTermsWithRecords =>
    /\ \A a \in GroupLts(1), b \in GroupLts(2) :
         (GroupLts(1) = {a} /\ GroupLts(2) = {b} /\ a # b /\ GroupLts(3) = {})
           => (RecordLts(1) = {a} /\ RecordLts(2) = {b} /\ RecordLts(3) = {a})
    /\ \A a \in GroupLts(1) :
         (GroupLts(1) = {a} /\ GroupLts(2) = {} /\ GroupLts(3) = {})
           => (RecordLts(1) = {a} /\ RecordLts(2) = {a} /\ RecordLts(3) = {a})
    /\ (GroupLts(1) = {} /\ GroupLts(2) = {} /\ GroupLts(3) = {})
           => \A r \in GeneralRecords : r.LT = NoLT

HasSampleLine == \E i \in 1..Len(text) : text[i] = SampleLine

\* C3: for a text that holds the line "1 FOB SH Sample $535.62 4-6",
\* parse_quote_file returns exactly one record, with MOQ 1, Price 535.62,
\* L/T "4-6wks", Remark "Sample" and Delivery Term "FOB SH".
C3_SampleQuote ==
  (pc = "done" /\ HasSampleLine) =>
    /\ Len(out) = 1
    /\ out[1].MOQ = 1
    /\ out[1].Price = 53562
    /\ out[1].LT = [lo |-> <<4>>, hi |-> <<6>>, wks |-> TRUE]
    /\ out[1].Remark = <<W("Sample")>>
    /\ out[1].DeliveryTerm = <<W("FOB"), W("SH")>>

\* C4: every record, of the general path and of the NRE path, has MOQ >= 1
\* and Price >= 0.
C4_QuantityAndPrice == \A r \in RangeOf(out) : r.MOQ >= 1 /\ r.Price >= 0

\* a line of the form "<qty> $<price> <low>-<high>"
IsQtyPriceLtLine(ln) ==
  /\ Len(ln) = 3
  /\ ln[1].k = "int"
  /\ ln[2].k = "money" /\ Len(ln[2].c) = 2
  /\ ln[3].k = "range"

\* the tuple (qty, price, "<low>-<high>wks") such a line stands for
TupleOf(ln) ==
  [moq |-> DigitsToInt(ln[1].a),
   price |-> 100 * DigitsToInt(ln[2].a \o ln[2].b) + DigitsToInt(ln[2].c),
   lt |-> [lo |-> ln[3].a, hi |-> ln[3].b, wks |-> TRUE]]

\* the nearest delivery-term line above line j, <<>> when there is none
TermLineAbove(j) ==
  LET S == {i \in 1..(j - 1) : HasIncoterm(ScanLines[i]) /\ ~HasDollar(ScanLines[i])}
  IN  IF S = {} THEN <<>> ELSE ScanLines[Max(S)]

\* the step that scans such a line appends its tuple to the group of the
\* delivery term above it and leaves every other group as it was
C9_ScanStep ==
  (/\ pc = "scan" /\ li <= Len(ScanLines)
   /\ IsQtyPriceLtLine(ScanLines[li])
   /\ TermLineAbove(li) # <<>>)
  => \E g \in 1..Len(groups) :
       /\ groups[g].d = TermLineAbove(li)
       /\ Len(groups') = Len(groups)
       /\ groups'[g] = [d |-> groups[g].d, rows |-> Append(groups[g].rows, TupleOf(ScanLines[li]))]
       /\ \A h \in 1..Len(groups) : h # g => groups'[h] = groups[h]

\* the record built from such a line for an item of that delivery term
C9_Records ==
  pc = "done" =>
    \A j \in 1..Len(ScanLines), e \in 1..Len(item_infos) :
      (/\ IsQtyPriceLtLine(ScanLines[j])
       /\ TermLineAbove(j) # <<>>
       /\ item_infos[e].delivery_item = TermLineAbove(j))
      => \E n \in 1..Len(out) :
           /\ out[n].Product = item_infos[e].product
           /\ out[n].DeliveryTerm = TermLineAbove(j)
           /\ out[n].MOQ = TupleOf(ScanLines[j]).moq
           /\ out[n].Price = TupleOf(ScanLines[j]).price
           /\ out[n].LT = TupleOf(ScanLines[j]).lt

ResultFor(f) ==
  IF interp_ok
  THEN [k |-> "iso", y |-> IF f.y < 100 THEN 2000 + f.y ELSE f.y, m |-> f.m, d |-> f.d]
  ELSE f

HasFrag(k) == \E i \in 1..Len(date_s) : date_s[i].k = k

IsFirstOf(i, k) == date_s[i].k = k /\ \A h \in 1..(i - 1) : date_s[h].k # k

\* the result comes from the first pattern of <<p1, p2, p3>> that matches
DecidedInOrder(p1, p2, p3) ==
  pc = "done" =>
    /\ (~HasFrag(p1) /\ ~HasFrag(p2) /\ ~HasFrag(p3)) => date_val = NoDate
    /\ \A i \in 1..Len(date_s) :
         /\ IsFirstOf(i, p1) => date_val = ResultFor(date_s[i])
         /\ (IsFirstOf(i, p2) /\ ~HasFrag(p1)) => date_val = ResultFor(date_s[i])
         /\ (IsFirstOf(i, p3) /\ ~HasFrag(p1) /\ ~HasFrag(p2)) => date_val = ResultFor(date_s[i])

\* C5 as claimed: the patterns are tried in the order D(D)-MMM-YY, then
\* MMM. D, YYYY, then YYYY-MM-DD, and the first that matches decides.
C5_OrderAsClaimed == DecidedInOrder("dmy", "mdy", "ymd")

\* C5: parse_date_any tries MMM. D, YYYY, then YYYY-MM-DD, then D(D)-MMM-YY;
\* the first pattern that matches anywhere decides; when the interpreter fails
\* the raw match is returned; when nothing matches the result is "".
C5_OrderInCode == DecidedInOrder("mdy", "ymd", "dmy")

\* "16-Dec-25 ... Nov. 19, 2025": the later MMM. D, YYYY date is returned
C5_Witness ==
  /\ pc = "done"
  /\ \E i, j \in 1..Len(date_s) :
       /\ i < j
       /\ date_s[i].k = "dmy"
       /\ date_s[j].k = "mdy"
       /\ date_val = [k |-> "iso", y |-> date_s[j].y, m |-> date_s[j].m, d |-> date_s[j].d]

AfterFill == pc \in {"emit", "nre", "done"}

\* the lead time of the nearest row above row j of group g that has one
LtAbove(g, j) ==
  LET P == {k \in 1..(j - 1) : groups[g].rows[k].lt # NoLT}
  IN  IF P = {} THEN NoLT ELSE groups[g].rows[Max(P)].lt

\* C6: within each group a row with a blank lead time gets that of the
\* nearest row above it in the same group that has one, rows above the
\* group's first lead time stay blank, nothing comes from another group, and
\* quantities and prices are unchanged.
C6_FillDown ==
  AfterFill =>
    /\ Len(pricing) = Len(groups)
    /\ \A g \in 1..Len(groups) :
         /\ pricing[g].d = groups[g].d
         /\ Len(pricing[g].rows) = Len(groups[g].rows)
         /\ \A j \in 1..Len(groups[g].rows) :
              /\ pricing[g].rows[j].moq = groups[g].rows[j].moq
              /\ pricing[g].rows[j].price = groups[g].rows[j].price
              /\ pricing[g].rows[j].lt =
                   IF groups[g].rows[j].lt # NoLT THEN groups[g].rows[j].lt ELSE LtAbove(g, j)

LtColumn(rows) == [j \in 1..Len(rows) |-> rows[j].lt]

\* a column [X, "", "", Y, ""] filled to [X, X, X, Y, Y]
C6_Witness ==
  /\ AfterFill
  /\ \E g \in 1..Len(groups) :
       \E X, Y \in RangeOf(LtColumn(groups[g].rows)) \ {NoLT} :
         /\ X # Y
         /\ LtColumn(groups[g].rows) = <<X, NoLT, NoLT, Y, NoLT>>
         /\ LtColumn(pricing[g].rows) = <<X, X, X, Y, Y>>

CleanBlock == StripAll(block_lines)

\* C7: for a block with a rated-current label line, the description holds
\* neither a rated-current label line nor a cable-length label line.
C7_NoLabelInDescription ==
  (pc = "done" /\ \E i \in 1..Len(CleanBlock) : HasRated(CleanBlock[i])) =>
    \A i \in 1..Len(CleanBlock) :
      (HasRated(CleanBlock[i]) \/ HasCable(CleanBlock[i]))
        => ~IsSubSeq(CleanBlock[i], product_spec.desc)

\* a rated-current line below the cable-length line, and a description
C7_Witness ==
  /\ pc = "done"
  /\ product_spec.desc # <<>>
  /\ \E i, j \in 1..Len(CleanBlock) :
       i < j /\ HasCable(CleanBlock[i]) /\ HasRated(CleanBlock[j])

NineThousand == Money(<<9>>, <<0, 0, 0>>, NoDigits)

HasNreKeyLine == \E i \in 1..Len(text) : text[i] = NreKeyLine

\* a line of the shape <id> <qty> $<unit> $<amount> <low>-<high> <remark>
IsNreShape(ln) ==
  /\ Len(ln) >= 5
  /\ ln[1].k = "int" /\ ln[2].k = "int"
  /\ ln[3].k = "money" /\ ln[4].k = "money"
  /\ ln[5].k = "range"

\* C8: the line "1 3 $3,000 $9,000 4-6 Necessary for MP" of an NRE List
\* section gives exactly one NRE record, after all general records, with
\* MOQ 3, Price 3000.00, L/T "4-6wks", Remark "Necessary for MP" and nothing
\* of the amount 9,000; without a line of that shape no NRE record is added.
C8_NreRecord ==
  pc = "done" =>
    /\ HasNreKeyLine =>
         /\ Len(out) >= 1
         /\ \A n \in 1..(Len(out) - 1) : ~IsNreRecord(out[n])
         /\ IsNreRecord(out[Len(out)])
         /\ out[Len(out)].MOQ = 3
         /\ out[Len(out)].Price = 300000
         /\ out[Len(out)].LT = [lo |-> <<4>>, hi |-> <<6>>, wks |-> TRUE]
         /\ out[Len(out)].Remark = <<W("Necessary"), W("for"), W("MP")>>
         /\ \A f \in {out[Len(out)].Product, out[Len(out)].Description, out[Len(out)].Remark,
                      out[Len(out)].RatedCurrent, out[Len(out)].CableLength} :
              \A i \in 1..Len(f) : f[i] # NineThousand
    /\ (\A i \in 1..Len(text) : ~IsNreShape(text[i])) =>
         /\ nre = <<>>
         /\ \A n \in 1..Len(out) : ~IsNreRecord(out[n])

\* the NRE record appended after the records of the general path
C8_Witness ==
  /\ pc = "done"
  /\ HasNreKeyLine
  /\ Len(out) >= 2
  /\ ~IsNreRecord(out[1])
  /\ out[Len(out)].MOQ = 3 /\ out[Len(out)].Price = 300000

\* the rated-current line whose value is returned: the last one
RatedIdx == LastIdx(CleanBlock, HasRated)

\* C10: the product name is the line right above the rated-current label
\* line, the block's first line when there is no such label line, and never
\* the rated-current label line itself, also when that line comes first.
C10_ProductName ==
  (pc = "done" /\ CleanBlock # <<>>) =>
    /\ RatedIdx = 0 => product_spec.product = CleanBlock[1]
    /\ RatedIdx > 1 => product_spec.product = CleanBlock[RatedIdx - 1]
    /\ RatedIdx = 1 => product_spec.product # CleanBlock[1]

====
